---- MODULE Spec2Model ----
(***************************************************************************)
(* Model of utils/map_to_fm.py: the reconciliation of extracted claim      *)
(* files against the FileMaker order ledger (process_matches).             *)
(*                                                                         *)
(* Strings are sequences of one-character strings, so that normalize_text  *)
(* is computed character by character.  Date strings are records that      *)
(* carry the layout of the text and the numbers written in it, so that     *)
(* parse_date is the trial of the four formats followed by the calendar    *)
(* check.  Dates are proleptic Gregorian ordinals (datetime.toordinal).    *)
(***************************************************************************)
EXTENDS Integers, Sequences, FiniteSets, TLC

(***************************************************************************)
(* Bounds of the model.                                                    *)
(***************************************************************************)
\* largest number of orders in the reference ledger
MaxOrders == 2
\* largest number of claim files listed under valid/
MaxKeys == 2
\* largest length of a text drawn for normalize_text
MaxLen == 3

(***************************************************************************)
(* Characters and normalize_text (map_to_fm.py:40-46).                     *)
(***************************************************************************)
\* the characters that occur in the sample names, in code-point order
CharOrder == <<" ", ",", ".", "A", "E", "I", "L", "N", "a", "e", "i", "l", "n">>

CharCode(ch) == CHOOSE i \in 1..Len(CharOrder) : CharOrder[i] = ch

IsSpace(ch) == ch = " "

\* str.isalnum on one character
IsAlnum(ch) == ch \notin {" ", ",", "."}

\* str.upper on one character
UpperChar(ch) ==
    CASE ch = "a" -> "A"
      [] ch = "e" -> "E"
      [] ch = "i" -> "I"
      [] ch = "l" -> "L"
      [] ch = "n" -> "N"
      [] OTHER -> ch

RECURSIVE LStrip(_)
LStrip(s) == IF s # <<>> /\ IsSpace(Head(s)) THEN LStrip(Tail(s)) ELSE s

RECURSIVE RStrip(_)
RStrip(s) ==
    IF s # <<>> /\ IsSpace(s[Len(s)]) THEN RStrip(SubSeq(s, 1, Len(s) - 1)) ELSE s

\* str.strip
Strip(s) == RStrip(LStrip(s))

Upper(s) == [i \in 1..Len(s) |-> UpperChar(s[i])]

RECURSIVE FilterAlnum(_)
FilterAlnum(s) ==
    IF s = <<>> THEN <<>>
    ELSE IF IsAlnum(Head(s)) THEN <<Head(s)>> \o FilterAlnum(Tail(s))
         ELSE FilterAlnum(Tail(s))

RECURSIVE InsertChar(_, _)
InsertChar(ch, s) ==
    IF s = <<>> THEN <<ch>>
    ELSE IF CharCode(ch) < CharCode(Head(s)) THEN <<ch>> \o s
         ELSE <<Head(s)>> \o InsertChar(ch, Tail(s))

RECURSIVE SortChars(_)
SortChars(s) == IF s = <<>> THEN <<>> ELSE InsertChar(Head(s), SortChars(Tail(s)))

\* a normalize_text that joins the characters in the order of the text
normalize_text_Unsorted(text) ==
    IF text = <<>> THEN <<>> ELSE FilterAlnum(Upper(Strip(text)))

\* a normalize_text that sorts before it upper-cases
normalize_text_UpperLast(text) ==
    IF text = <<>> THEN <<>> ELSE Upper(SortChars(FilterAlnum(Strip(text))))

\* normalize_text: "" for an empty or absent text, else the sorted
\* alphanumeric characters of the stripped, upper-cased text
normalize_text(text) ==
    IF text = <<>> THEN <<>> ELSE SortChars(FilterAlnum(Upper(Strip(text))))

(***************************************************************************)
(* Date strings and parse_date (map_to_fm.py:48-58).                       *)
(***************************************************************************)
\* a date string: the layout of the text and the numbers written in it
DateStr(f, yy, mm, dd) == [fmt |-> f, y |-> yy, m |-> mm, d |-> dd]

\* the empty string (also what .get(..., "") gives for an absent field)
EmptyDate == DateStr("", 0, 0, 0)
\* a null cell of the line-items table (pd.notna is false)
NullDate == DateStr("null", 0, 0, 0)
\* a text that has none of the four layouts
TextDate == DateStr("text", 0, 0, 0)

\* parse_date's date_formats, in the order they are tried
date_formats == <<"%Y-%m-%d", "%m/%d/%Y", "%Y%m%d", "%m-%d-%Y">>

IsLeap(y) == (y % 4 = 0) /\ ((y % 100 # 0) \/ (y % 400 = 0))

DaysInMonth(y, m) ==
    IF m = 2 THEN (IF IsLeap(y) THEN 29 ELSE 28)
    ELSE IF m \in {4, 6, 9, 11} THEN 30 ELSE 31

\* does strptime accept the numbers as a calendar date
ValidYMD(y, m, d) ==
    /\ y \in 1..9999
    /\ m \in 1..12
    /\ d >= 1
    /\ d <= DaysInMonth(y, m)

RECURSIVE DaysBeforeMonth(_, _)
DaysBeforeMonth(y, m) ==
    IF m <= 1 THEN 0 ELSE DaysBeforeMonth(y, m - 1) + DaysInMonth(y, m - 1)

\* datetime.toordinal of a valid date
Ordinal(y, m, d) ==
    LET p == y - 1
    IN  365 * p + (p \div 4) - (p \div 100) + (p \div 400) + DaysBeforeMonth(y, m) + d

\* the value parse_date returns for "no date"
None == -1

\* datetime.strptime(date_str, fmt): TRUE when it does not raise ValueError
Strptime(date_str, fmt) == date_str.fmt = fmt /\ ValidYMD(date_str.y, date_str.m, date_str.d)

RECURSIVE TryFormats(_, _)
TryFormats(date_str, i) ==
    IF i > Len(date_formats) THEN None
    ELSE IF Strptime(date_str, date_formats[i])
         THEN Ordinal(date_str.y, date_str.m, date_str.d)
         ELSE TryFormats(date_str, i + 1)

\* parse_date: None for an empty string, else the first format that parses
parse_date(date_str) ==
    IF date_str.fmt = "" THEN None ELSE TryFormats(date_str, 1)

(***************************************************************************)
(* fuzzywuzzy's ratios on normalized names.  A normalized name holds no    *)
(* whitespace, so it is a single token for token_sort_ratio and            *)
(* token_set_ratio.                                                        *)
(***************************************************************************)
\* the common blocks of a and b: <<i, j, k>> with a[i..i+k-1] = b[j..j+k-1]
Blocks(a, b) ==
    {t \in (1..Len(a)) \X (1..Len(b)) \X (1..Len(a)) :
        /\ t[1] + t[3] - 1 <= Len(a)
        /\ t[2] + t[3] - 1 <= Len(b)
        /\ \A n \in 0..(t[3] - 1) : a[t[1] + n] = b[t[2] + n]}

\* SequenceMatcher.find_longest_match: longest, then earliest in a, then in b
LongestBlock(B) ==
    CHOOSE t \in B :
        \A u \in B :
            \/ t[3] > u[3]
            \/ (t[3] = u[3] /\ t[1] < u[1])
            \/ (t[3] = u[3] /\ t[1] = u[1] /\ t[2] <= u[2])

RECURSIVE MatchCount(_, _)
\* SequenceMatcher.get_matching_blocks: total size of the matching blocks
MatchCount(a, b) ==
    LET B == Blocks(a, b)
    IN  IF B = {} THEN 0
        ELSE
         LET t == LongestBlock(B)
         IN  t[3]
             + MatchCount(SubSeq(a, 1, t[1] - 1), SubSeq(b, 1, t[2] - 1))
             + MatchCount(SubSeq(a, t[1] + t[3], Len(a)), SubSeq(b, t[2] + t[3], Len(b)))

\* int(round(100 * num / den)), round half to even
RoundPct(num, den) ==
    LET q == (100 * num) \div den
        r == (100 * num) % den
    IN  IF 2 * r > den \/ (2 * r = den /\ q % 2 = 1) THEN q + 1 ELSE q

\* fuzz.ratio: 0 for an empty string, else 100 * 2M / T rounded
Ratio(a, b) ==
    IF a = <<>> \/ b = <<>> THEN 0
    ELSE RoundPct(2 * MatchCount(a, b), Len(a) + Len(b))

Max2(x, y) == IF x >= y THEN x ELSE y

\* fuzz.token_sort_ratio of two single-token strings
token_sort_ratio(a, b) == Ratio(a, b)

\* fuzz.token_set_ratio of two single-token strings: the best of the ratios
\* of (intersection, intersection + rest of a, intersection + rest of b)
token_set_ratio(a, b) ==
    IF a = <<>> \/ b = <<>> THEN 0
    ELSE LET sect == IF a = b THEN a ELSE <<>>
             \* sorted_sect + " " + sorted difference, stripped
             c1 == a
             c2 == b
         IN  Max2(Ratio(sect, c1), Max2(Ratio(sect, c2), Ratio(c1, c2)))

(***************************************************************************)
(* The reference ledger: orders.parquet and line_items.parquet, and        *)
(* load_orders_to_dataframe (map_to_fm.py:60-98).                          *)
(***************************************************************************)
\* a null cell of the CPT column (dropped by dropna)
NullCpt == <<"NaN">>

OrderIds == <<"O1", "O2", "O3", "O4">>
FmNumbers == <<"FM1", "FM2", "FM3", "FM4">>

\* the rows of orders.parquet for a ledger (a sequence of orders, each a
\* patient name and its line items): the i-th order has the i-th id
OrdersTable(ledger) ==
    [i \in 1..Len(ledger) |->
        [Order_ID |-> OrderIds[i],
         FileMaker_Record_Number |-> FmNumbers[i],
         PatientName |-> ledger[i].PatientName]]

RECURSIVE ItemsTable(_, _)
\* the rows of line_items.parquet for the orders from the i-th on
ItemsTable(ledger, i) ==
    IF i > Len(ledger) THEN <<>>
    ELSE [n \in 1..Len(ledger[i].items) |->
             [Order_ID |-> OrderIds[i],
              DOS |-> ledger[i].items[n].DOS,
              CPT |-> ledger[i].items[n].CPT]]
         \o ItemsTable(ledger, i + 1)

\* line 78: DOS becomes parse_date(str(x)) when not null, else None
ParsedItems(items) ==
    [n \in 1..Len(items) |->
        [Order_ID |-> items[n].Order_ID,
         DOS |-> IF items[n].DOS.fmt # "null" THEN parse_date(items[n].DOS) ELSE None,
         CPT |-> items[n].CPT]]

RECURSIVE DosOf(_, _)
\* lines 81-84: the valid dates of an order's line items, in row order
DosOf(order_id, items) ==
    IF items = <<>> THEN <<>>
    ELSE IF Head(items).Order_ID = order_id /\ Head(items).DOS # None
         THEN <<Head(items).DOS>> \o DosOf(order_id, Tail(items))
         ELSE DosOf(order_id, Tail(items))

\* lines 88-95: the left merge of the orders with the date groups.  An
\* order that has no group gets NaN in DOS_List (DOS_isnan); names are
\* normalized
MergeOrders(orders, items) ==
    [i \in 1..Len(orders) |->
        [Order_ID |-> orders[i].Order_ID,
         FileMaker_Record_Number |-> orders[i].FileMaker_Record_Number,
         PatientName |-> normalize_text(orders[i].PatientName),
         DOS_List |-> DosOf(orders[i].Order_ID, items),
         DOS_isnan |-> DosOf(orders[i].Order_ID, items) = <<>>]]

\* get_cpts_for_order (lines 100-103)
get_cpts_for_order(order_id, line_items_df) ==
    {Strip(line_items_df[n].CPT) :
        n \in {m \in 1..Len(line_items_df) :
                 /\ line_items_df[m].Order_ID = order_id
                 /\ line_items_df[m].CPT # NullCpt}}

(***************************************************************************)
(* One iteration of the loop of process_matches (map_to_fm.py:119-225),    *)
(* as a function of the claim file, of the loaded ledger and of the        *)
(* storage call that fails (io).                                           *)
(***************************************************************************)
\* line 150: the composite score an order needs
SCORE_MIN == 90
\* line 157: the largest distance in days between a claim and an order date
DOS_WINDOW == 14

Abs(n) == IF n < 0 THEN 0 - n ELSE n

\* lines 134-136: one entry per service line whose date_of_service is not
\* empty; the entry is None when the date does not parse
RECURSIVE dos_list_of(_)
dos_list_of(service_lines) ==
    IF service_lines = <<>> THEN <<>>
    ELSE IF Head(service_lines).date_of_service.fmt # ""
         THEN <<parse_date(Head(service_lines).date_of_service)>>
              \o dos_list_of(Tail(service_lines))
         ELSE dos_list_of(Tail(service_lines))

\* a window one day too wide
WithinWindow_Wide(json_dos, db_dos) == Abs(json_dos - db_dos) <= DOS_WINDOW + 1

\* line 157: the test of one pair of dates (db_dos is a date, never falsy)
WithinWindow(json_dos, db_dos) == Abs(json_dos - db_dos) <= DOS_WINDOW

RECURSIVE InnerLoop(_, _, _)
\* lines 156-164: "hit", "raise" (json_dos is None: TypeError) or "none"
InnerLoop(json_dos, db_dos_list, j) ==
    IF j > Len(db_dos_list) THEN "none"
    ELSE IF json_dos = None THEN "raise"
         ELSE IF WithinWindow(json_dos, db_dos_list[j]) THEN "hit"
              ELSE InnerLoop(json_dos, db_dos_list, j + 1)

RECURSIVE DateLoop(_, _, _)
\* lines 155-167: "hit", "raise" or "none".  Iterating a NaN DOS_List
\* raises TypeError
DateLoop(dos_list, row, i) ==
    IF i > Len(dos_list) THEN "none"
    ELSE IF row.DOS_isnan THEN "raise"
         ELSE LET r == InnerLoop(dos_list[i], row.DOS_List, 1)
              IN  IF r = "none" THEN DateLoop(dos_list, row, i + 1) ELSE r

\* lines 146-148; composite_score is kept doubled to stay an integer
Scored(json_name, row) ==
    [token_sort_score |-> token_sort_ratio(json_name, row.PatientName),
     token_set_score |-> token_set_ratio(json_name, row.PatientName),
     composite_score2 |-> token_sort_ratio(json_name, row.PatientName)
                          + token_set_ratio(json_name, row.PatientName),
     row |-> row]

\* line 150
PassesName(m) == m.composite_score2 >= 2 * SCORE_MIN

\* lines 151-153: "if not db_dos_list: continue"; NaN is truthy
SkipsDates(row) == ~row.DOS_isnan /\ row.DOS_List = <<>>

RECURSIVE Scan(_, _, _, _, _)
\* lines 144-167: the scan of df_orders from row i on
Scan(json_name, dos_list, df, i, acc) ==
    IF i > Len(df) THEN [raised |-> FALSE, cands |-> acc, scored |-> Len(df)]
    ELSE LET m == Scored(json_name, df[i])
         IN  IF ~PassesName(m) \/ SkipsDates(df[i])
             THEN Scan(json_name, dos_list, df, i + 1, acc)
             ELSE LET r == DateLoop(dos_list, df[i], 1)
                  IN  IF r = "raise"
                      THEN [raised |-> TRUE, cands |-> acc, scored |-> i]
                      ELSE IF r = "hit"
                           THEN Scan(json_name, dos_list, df, i + 1, Append(acc, m))
                           ELSE Scan(json_name, dos_list, df, i + 1, acc)

\* lines 174-176
json_cpts_of(service_lines) ==
    {Strip(service_lines[n].cpt_code) :
        n \in {m \in 1..Len(service_lines) : service_lines[m].cpt_code # <<>>}}

\* the sort keys in the wrong order: the name score first
KeyGreater_ScoreFirst(x, y) ==
    \/ x.match.composite_score2 > y.match.composite_score2
    \/ (x.match.composite_score2 = y.match.composite_score2 /\ x.cpt_score > y.cpt_score)

\* line 185: key=lambda x: (x[0], x[1]), compared as tuples
KeyGreater(x, y) ==
    \/ x.cpt_score > y.cpt_score
    \/ (x.cpt_score = y.cpt_score /\ x.match.composite_score2 > y.match.composite_score2)

\* a sort that is not stable: an entry goes behind its equals
GoesAfter_Unstable(x, y) ==
    \/ y.cpt_score > x.cpt_score
    \/ (y.cpt_score = x.cpt_score /\ y.match.composite_score2 >= x.match.composite_score2)

\* does x, met earlier in the scan than y, stay behind y in the sorted list
GoesAfter(x, y) == KeyGreater(y, x)

RECURSIVE InsertDesc(_, _)
InsertDesc(x, t) ==
    IF t = <<>> THEN <<x>>
    ELSE IF GoesAfter(x, Head(t)) THEN <<Head(t)>> \o InsertDesc(x, Tail(t))
         ELSE <<x>> \o t

RECURSIVE SortDesc(_)
\* list.sort(reverse=True, key=...): descending, and stable (entries with
\* equal keys keep their order)
SortDesc(s) == IF s = <<>> THEN <<>> ELSE InsertDesc(Head(s), SortDesc(Tail(s)))

\* lines 178-183
Enriched(candidate_matches, json_cpts, line_items_df) ==
    [n \in 1..Len(candidate_matches) |->
        [cpt_score |-> Cardinality(json_cpts
                          \cap get_cpts_for_order(candidate_matches[n].row.Order_ID,
                                                  line_items_df)),
         match |-> candidate_matches[n]]]

\* no short cut for a single candidate: it is ranked like the others
Resolve_AlwaysRank(candidate_matches, service_lines, line_items_df) ==
    IF Len(candidate_matches) >= 1
    THEN [found |-> TRUE,
          best |-> <<SortDesc(Enriched(candidate_matches,
                                       json_cpts_of(service_lines),
                                       line_items_df))[1].match>>,
          cpt_calls |-> Len(candidate_matches)]
    ELSE [found |-> FALSE, best |-> <<>>, cpt_calls |-> 0]

\* lines 169-186: the best match and the number of calls of
\* get_cpts_for_order; found is FALSE when best_match stays None
Resolve(candidate_matches, service_lines, line_items_df) ==
    IF Len(candidate_matches) = 1
    THEN [found |-> TRUE, best |-> <<candidate_matches[1]>>, cpt_calls |-> 0]
    ELSE IF Len(candidate_matches) > 1
         THEN [found |-> TRUE,
               best |-> <<SortDesc(Enriched(candidate_matches,
                                            json_cpts_of(service_lines),
                                            line_items_df))[1].match>>,
               cpt_calls |-> Len(candidate_matches)]
         ELSE [found |-> FALSE, best |-> <<>>, cpt_calls |-> 0]

\* the storage calls of one iteration that can fail (utils.s3_utils)
IOFaults == {"none", "download", "upload", "move"}

\* process_matches never binds the name "results" that line 203 appends to
ResultsBound == FALSE

\* an object of the bucket or a local file that does not exist
NoObject ==
    [json_ok |-> FALSE, patient_name |-> <<>>, service_lines |-> <<>>,
     Order_ID |-> "missing", filemaker_number |-> "missing"]

\* lines 190-191: json_data with the two fields of the best match
EnrichedJson(json_data, best_match) ==
    [json_data EXCEPT !.Order_ID = best_match.row.Order_ID,
                      !.filemaker_number = best_match.row.FileMaker_Record_Number]

\* lines 203-213: the audit record of a match
AuditRecord(key, json_data, json_name, best_match) ==
    [json_filename |-> key,
     json_name_original |-> json_data.patient_name,
     json_name_normalized |-> json_name,
     db_name_original |-> best_match.row.PatientName,
     db_order_id |-> best_match.row.Order_ID,
     db_filemaker_number |-> best_match.row.FileMaker_Record_Number,
     token_sort_score |-> best_match.token_sort_score,
     token_set_score |-> best_match.token_set_score,
     composite_score2 |-> best_match.composite_score2]

\* what an iteration has done when nothing has happened yet
Untouched ==
    [exc |-> "none", json_name |-> <<>>, dos_list |-> <<>>,
     scored |-> 0, candidate_matches |-> <<>>, best |-> <<>>, cpt_calls |-> 0,
     downloaded |-> FALSE, rewritten |-> FALSE, uploaded |-> FALSE,
     moved_to |-> "nowhere", audited |-> FALSE, removed |-> FALSE,
     counted |-> FALSE]

\* lines 188-221 when best_match is set: the local file is rewritten,
\* uploaded, the claim is moved, the audit record appended, the local file
\* removed and the claim counted, up to the first statement that raises
MatchedBranch(r, io) ==
    LET w == [r EXCEPT !.rewritten = TRUE]
    IN  IF io = "upload" THEN [w EXCEPT !.exc = "upload"]
        ELSE IF io = "move" THEN [w EXCEPT !.exc = "move", !.uploaded = TRUE]
        ELSE IF ~ResultsBound
             THEN [w EXCEPT !.exc = "NameError", !.uploaded = TRUE,
                            !.moved_to = "mapped"]
             ELSE [w EXCEPT !.uploaded = TRUE, !.moved_to = "mapped",
                            !.audited = TRUE, !.removed = TRUE, !.counted = TRUE]

\* lines 214-221 when best_match is None
UnmatchedBranch(r, io) ==
    IF io = "move" THEN [r EXCEPT !.exc = "move"]
    ELSE [r EXCEPT !.moved_to = "unmapped", !.removed = TRUE, !.counted = TRUE]

\* lines 138-142: "continue" leaves the local file and the counter alone
MissingBranch(r, io) ==
    IF io = "move" THEN [r EXCEPT !.exc = "move"]
    ELSE [r EXCEPT !.moved_to = "unmapped"]

\* line 138
IsMissing(json_name, dos_list) == json_name = <<>> \/ dos_list = <<>>

\* a loop body that appends to the list the iteration before it left
NewCandidates_Keep(before) == before

\* line 144: candidate_matches is bound to a new empty list, whatever the
\* iteration before it left in the name
NewCandidates(before) == <<>>

\* lines 123-225: what the iteration for a claim file does, io being the
\* storage call that fails in it and before the candidate_matches of the
\* function when the iteration starts
IterationAfter(before, content, io, df_orders, df_line_items) ==
    LET r0 == Untouched
    IN
    IF io = "download" THEN [r0 EXCEPT !.exc = "download"]
    ELSE IF ~content.json_ok THEN [r0 EXCEPT !.exc = "JSONDecodeError", !.downloaded = TRUE]
    ELSE
    LET json_name == normalize_text(content.patient_name)
        dos_list == dos_list_of(content.service_lines)
        r1 == [r0 EXCEPT !.downloaded = TRUE, !.json_name = json_name,
                         !.dos_list = dos_list]
    IN
    IF IsMissing(json_name, dos_list) THEN MissingBranch(r1, io)
    ELSE
    LET sc == Scan(json_name, dos_list, df_orders, 1, NewCandidates(before))
        r2 == [r1 EXCEPT !.scored = sc.scored, !.candidate_matches = sc.cands]
    IN
    IF sc.raised THEN [r2 EXCEPT !.exc = "TypeError"]
    ELSE
    LET res == Resolve(sc.cands, content.service_lines, df_line_items)
        r3 == [r2 EXCEPT !.best = res.best, !.cpt_calls = res.cpt_calls]
    IN
    IF res.found THEN MatchedBranch(r3, io) ELSE UnmatchedBranch(r3, io)

\* the iteration of a claim file in a run that has bound no candidate_matches
Iteration(content, io, df_orders, df_line_items) ==
    IterationAfter(<<>>, content, io, df_orders, df_line_items)

\* the iteration r went as far as line 144
ReachedScan(r) ==
    /\ r.downloaded
    /\ r.exc # "JSONDecodeError"
    /\ ~IsMissing(r.json_name, r.dos_list)

(***************************************************************************)
(* utils.s3_utils: the bucket is a function from object keys              *)
(* <<prefix, file>> to contents.                                           *)
(***************************************************************************)
Prefixes == {"valid", "mapped", "unmapped"}
Files == 1..MaxKeys

\* upload(local_path, key): the object at key becomes the local file
upload(b, content, key) == [b EXCEPT ![key] = content]

\* move(src, dst): the object at src is copied over dst and deleted
move(b, src, dst) == [b EXCEPT ![dst] = b[src], ![src] = NoObject]

\* list_objects(VALID_PREFIX) filtered by lines 112-114: the claim files
\* directly under valid/, in key order
RECURSIVE ListFrom(_, _)
ListFrom(b, f) ==
    IF f > MaxKeys THEN <<>>
    ELSE IF b[<<"valid", f>>] # NoObject THEN <<f>> \o ListFrom(b, f + 1)
         ELSE ListFrom(b, f + 1)

(***************************************************************************)
(* Sample inputs.                                                          *)
(***************************************************************************)
NameAnnLi == <<"A", "n", "n", " ", "L", "i">>
NameLiAnn == <<"L", "I", ",", " ", "A", "N", "N">>
NameLiAnne == <<" ", "L", "i", ",", "A", "n", "n", "e">>
NameAlLin == <<"A", "l", " ", "L", "i", "n">>

Cpt99213 == <<"9", "9", "2", "1", "3">>
Cpt99213Padded == <<" ", "9", "9", "2", "1", "3", " ">>
Cpt72148 == <<"7", "2", "1", "4", "8">>
Cpt72148Padded == <<"7", "2", "1", "4", "8", " ">>

Line(d, c) == [date_of_service |-> d, cpt_code |-> c]

\* the service lines a claim is made of
LineGood == Line(DateStr("%Y-%m-%d", 2024, 1, 10), Cpt99213Padded)
LineBad == Line(DateStr("%Y-%m-%d", 2024, 2, 30), Cpt72148)
LineNoDate == Line(EmptyDate, <<>>)
LineLate == Line(DateStr("%m/%d/%Y", 2024, 1, 30), Cpt72148)

LinePool == {LineGood, LineBad, LineNoDate, LineLate}

\* the service_lines of a claim: at most two lines
LineSeqs == {<<>>} \cup {<<a>> : a \in LinePool} \cup {<<a, b>> : a, b \in LinePool}

ClaimNames == {<<>>, <<",", " ">>, NameAnnLi}

Claim(name, service_lines) ==
    [json_ok |-> TRUE, patient_name |-> name, service_lines |-> service_lines,
     Order_ID |-> "missing", filemaker_number |-> "missing"]

\* a file that is not JSON
Malformed == [NoObject EXCEPT !.patient_name = <<".">>]

\* a name of punctuation only goes with the claims of at most one line
Claims ==
    {Claim(n, l) : n \in ClaimNames \ {<<",", " ">>}, l \in LineSeqs}
    \cup {Claim(<<",", " ">>, l) : l \in {<<>>} \cup {<<a>> : a \in LinePool}}
    \cup {Malformed}

Item(d, c) == [DOS |-> d, CPT |-> c]
Order(name, items) == [PatientName |-> name, items |-> items]

\* same name, a date 14 days after LineGood's
OrderNear == Order(NameLiAnn, <<Item(DateStr("%Y-%m-%d", 2024, 1, 24), Cpt99213)>>)
\* a name that scores 91, two procedure codes, one null date
OrderAnne ==
    Order(NameLiAnne, <<Item(DateStr("%m/%d/%Y", 2024, 1, 24), Cpt99213),
                        Item(NullDate, Cpt72148Padded)>>)
\* same name, a date 15 days before LineGood's
OrderFar == Order(NameLiAnn, <<Item(DateStr("%m-%d-%Y", 2023, 12, 26), Cpt99213)>>)
\* same name, no date that parses
OrderNoDate == Order(NameLiAnn, <<Item(TextDate, Cpt72148)>>)
\* a name that scores 80, LineGood's date
OrderOther == Order(NameAlLin, <<Item(DateStr("%Y%m%d", 2024, 1, 10), Cpt99213)>>)
\* a name that scores 91, LineGood's date, no procedure code
OrderAnneNoCpt == Order(NameLiAnne, <<Item(DateStr("%Y%m%d", 2024, 1, 10), NullCpt)>>)

OrderPool == {OrderNear, OrderAnne, OrderFar, OrderNoDate, OrderOther, OrderAnneNoCpt}

\* the ledgers: at most MaxOrders orders
Ledgers == UNION {[1..n -> OrderPool] : n \in 0..MaxOrders}

\* the inputs of the runs over several claim files
BatchClaims ==
    {Claim(<<>>, <<LineGood>>), Claim(NameAnnLi, <<LineGood>>),
     Claim(NameAnnLi, <<LineBad, LineGood>>), Claim(NameAnnLi, <<LineLate>>),
     Malformed}
BatchLedgers == {<<OrderAnneNoCpt>>, <<OrderFar, OrderNoDate>>}

(***************************************************************************)
(* The run of process_matches.                                             *)
(***************************************************************************)
VARIABLES
    pc,                  \* "load", "list", "loop" or "done"
    orders_parquet,      \* data/filemaker/orders.parquet
    line_items_parquet,  \* data/filemaker/line_items.parquet
    df_orders,           \* load_orders_to_dataframe()[0]
    df_line_items,       \* load_orders_to_dataframe()[1]
    bucket,              \* the objects of the S3 bucket
    local,               \* the files of the temporary directory
    json_keys,           \* the listing
    idx,                 \* the position of the loop in json_keys
    processed_files,
    results,             \* the audit records
    trace,               \* per claim file, what its iteration did
    attempts,            \* per claim file, the number of its iterations
    input,               \* per claim file, the object under valid/ at the start
    candidate_matches,   \* the local name of process_matches
    norm_pc,             \* "idle", "input" or "normalized"
    text_a,              \* a text given to normalize_text
    text_b,              \* another text given to normalize_text
    fp_a,                \* normalize_text(text_a)
    fp_b,                \* normalize_text(text_b)
    fp_again,            \* normalize_text(fp_a)
    main_pc,             \* "idle", "steps", "summary" or "returned"
    step,                \* the position of main's loop in pipeline_steps
    outcomes,            \* per step run, how step_func ended
    step_results,        \* main's results: (step_name, success)
    exit_code            \* what main returned

\* the state of process_matches
match_vars == <<pc, orders_parquet, line_items_parquet, df_orders, df_line_items,
                bucket, local, json_keys, idx, processed_files, results, trace,
                attempts, input, candidate_matches>>

\* the state of the calls of normalize_text
norm_vars == <<norm_pc, text_a, text_b, fp_a, fp_b, fp_again>>

\* the state of main
main_vars == <<main_pc, step, outcomes, step_results, exit_code>>

vars == <<match_vars, norm_vars, main_vars>>

\* normalize_text is not being called on its own
NormIdle ==
    /\ norm_pc = "idle"
    /\ text_a = <<>>
    /\ text_b = <<>>
    /\ fp_a = <<>>
    /\ fp_b = <<>>
    /\ fp_again = <<>>

\* main is not running
MainIdle ==
    /\ main_pc = "idle"
    /\ step = 1
    /\ outcomes = <<>>
    /\ step_results = <<>>
    /\ exit_code = None

\* the bucket that holds the claims cs[1..Len(cs)] under valid/
BucketOf(cs) ==
    [k \in Prefixes \X Files |->
        IF k[1] = "valid" /\ k[2] <= Len(cs) THEN cs[k[2]] ELSE NoObject]

InitWith(ledger, cs) ==
    /\ pc = "load"
    /\ orders_parquet = OrdersTable(ledger)
    /\ line_items_parquet = ItemsTable(ledger, 1)
    /\ df_orders = <<>>
    /\ df_line_items = <<>>
    /\ bucket = BucketOf(cs)
    /\ local = [f \in Files |-> NoObject]
    /\ json_keys = <<>>
    /\ idx = 1
    /\ processed_files = 0
    /\ results = <<>>
    /\ trace = [f \in Files |-> Untouched]
    /\ attempts = [f \in Files |-> 0]
    /\ input = [f \in Files |-> BucketOf(cs)[<<"valid", f>>]]
    /\ candidate_matches = <<>>
    /\ NormIdle
    /\ MainIdle

\* one claim file of any kind against any ledger, or several claim files
\* of the batch kinds against a batch ledger
Init ==
    \/ \E ledger \in Ledgers, c \in Claims : InitWith(ledger, <<c>>)
    \/ \E ledger \in BatchLedgers, n \in 2..MaxKeys :
          \E cs \in [1..n -> BatchClaims] : InitWith(ledger, cs)

\* line 107
LoadOrders ==
    /\ pc = "load"
    /\ df_line_items' = ParsedItems(line_items_parquet)
    /\ df_orders' = MergeOrders(orders_parquet, ParsedItems(line_items_parquet))
    /\ pc' = "list"
    /\ UNCHANGED <<orders_parquet, line_items_parquet, bucket, local, json_keys,
                   idx, processed_files, results, trace, attempts, input,
                   candidate_matches, norm_vars, main_vars>>

\* lines 109-117
ListFiles ==
    /\ pc = "list"
    /\ json_keys' = ListFrom(bucket, 1)
    /\ processed_files' = 0
    /\ idx' = 1
    /\ pc' = "loop"
    /\ UNCHANGED <<orders_parquet, line_items_parquet, df_orders, df_line_items,
                   bucket, local, results, trace, attempts, input,
                   candidate_matches, norm_vars, main_vars>>

\* a handler that leaves the loop
AfterIteration_Break(exc, i, n) == IF exc # "none" THEN n + 1 ELSE i + 1

\* lines 223-225: the handler prints and continues with the next key
AfterIteration(exc, i, n) == i + 1

\* the bucket after the iteration r of file f
BucketAfter(b, f, r) ==
    LET json_data == b[<<"valid", f>>]
        b1 == IF r.uploaded
              THEN upload(b, EnrichedJson(json_data, r.best[1]), <<"mapped", f>>)
              ELSE b
    IN  IF r.moved_to # "nowhere" THEN move(b1, <<"valid", f>>, <<r.moved_to, f>>)
        ELSE b1

\* the temporary file of f after the iteration r
LocalAfter(b, old, f, r) ==
    IF r.removed THEN NoObject
    ELSE IF r.rewritten THEN EnrichedJson(b[<<"valid", f>>], r.best[1])
    ELSE IF r.downloaded THEN b[<<"valid", f>>]
    ELSE old

\* lines 119-225: one iteration of the loop
ProcessKey ==
    /\ pc = "loop"
    /\ idx <= Len(json_keys)
    /\ \E io \in IOFaults, f \in {json_keys[idx]} :
          \E r \in {IterationAfter(candidate_matches, bucket[<<"valid", f>>], io,
                                   df_orders, df_line_items)} :
              /\ bucket' = BucketAfter(bucket, f, r)
              /\ local' = [local EXCEPT ![f] = LocalAfter(bucket, local[f], f, r)]
              /\ results' = IF r.audited
                            THEN Append(results,
                                        AuditRecord(f, bucket[<<"valid", f>>],
                                                    r.json_name, r.best[1]))
                            ELSE results
              /\ processed_files' = processed_files + (IF r.counted THEN 1 ELSE 0)
              /\ trace' = [trace EXCEPT ![f] = r]
              /\ attempts' = [attempts EXCEPT ![f] = @ + 1]
              /\ idx' = AfterIteration(r.exc, idx, Len(json_keys))
              /\ candidate_matches' = IF ReachedScan(r) THEN r.candidate_matches
                                      ELSE candidate_matches
    /\ UNCHANGED <<pc, orders_parquet, line_items_parquet, df_orders,
                   df_line_items, json_keys, input, norm_vars, main_vars>>

\* line 227
Summary ==
    /\ pc = "loop"
    /\ idx > Len(json_keys)
    /\ pc' = "done"
    /\ UNCHANGED <<orders_parquet, line_items_parquet, df_orders, df_line_items,
                   bucket, local, json_keys, idx, processed_files, results,
                   trace, attempts, input, candidate_matches, norm_vars,
                   main_vars>>

Next == LoadOrders \/ ListFiles \/ ProcessKey \/ Summary

Spec == Init /\ [][Next]_vars

(***************************************************************************)
(* The calls of normalize_text on texts of at most MaxLen characters and   *)
(* on the sample names.                                                    *)
(***************************************************************************)
\* process_matches is not running
MatchIdle ==
    /\ pc = "idle"
    /\ orders_parquet = <<>>
    /\ line_items_parquet = <<>>
    /\ df_orders = <<>>
    /\ df_line_items = <<>>
    /\ bucket = BucketOf(<<>>)
    /\ local = [f \in Files |-> NoObject]
    /\ json_keys = <<>>
    /\ idx = 1
    /\ processed_files = 0
    /\ results = <<>>
    /\ trace = [f \in Files |-> Untouched]
    /\ attempts = [f \in Files |-> 0]
    /\ input = [f \in Files |-> NoObject]
    /\ candidate_matches = <<>>

\* a space, a punctuation mark, a letter in both cases, a second letter
NormChars == {" ", ",", "a", "A", "N"}

\* the texts given to normalize_text; the empty text stands for "" and None
Texts ==
    UNION {[1..n -> NormChars] : n \in 0..MaxLen}
    \cup {NameAnnLi, NameLiAnn, NameLiAnne, NameAlLin}

InitNorm ==
    /\ MatchIdle
    /\ MainIdle
    /\ norm_pc = "input"
    /\ text_a \in Texts
    /\ text_b \in Texts
    /\ fp_a = <<>>
    /\ fp_b = <<>>
    /\ fp_again = <<>>

\* normalize_text(text_a), normalize_text(text_b)
NormalizeTexts ==
    /\ norm_pc = "input"
    /\ fp_a' = normalize_text(text_a)
    /\ fp_b' = normalize_text(text_b)
    /\ norm_pc' = "normalized"
    /\ UNCHANGED <<text_a, text_b, fp_again, match_vars, main_vars>>

\* normalize_text(normalize_text(text_a))
NormalizeAgain ==
    /\ norm_pc = "normalized"
    /\ fp_again' = normalize_text(fp_a)
    /\ norm_pc' = "again"
    /\ UNCHANGED <<text_a, text_b, fp_a, fp_b, match_vars, main_vars>>

NextNorm == NormalizeTexts \/ NormalizeAgain

SpecNorm == InitNorm /\ [][NextNorm]_vars

(***************************************************************************)
(* main.py: the seven steps of the pipeline.                               *)
(***************************************************************************)
\* main's pipeline_steps, by step_name
pipeline_steps ==
    <<"Upload Batch", "Split HCFA Batches", "Generate PDF Previews",
      "OCR Processing", "LLM Extraction", "JSON Validation", "FileMaker Mapping">>

\* how a call of step_func can end: every step returns or raises;
\* process_pdf_previews catches what its listing and its generation raise
\* and returns False (it raises only from the statements before its try)
StepEnds(step_name) ==
    IF step_name = "Generate PDF Previews"
    THEN {"returns", "returns_false", "raises"}
    ELSE {"returns", "raises"}

\* run_pipeline_step: step_func() is called for its effect, its value is
\* dropped; True unless the call raises
run_pipeline_step(ending) == ending # "raises"

\* line 170: all(success for _, success in results)
AllSucceeded(rs) == \A n \in 1..Len(rs) : rs[n][2]

InitMain ==
    /\ MatchIdle
    /\ NormIdle
    /\ main_pc = "steps"
    /\ step = 1
    /\ outcomes = <<>>
    /\ step_results = <<>>
    /\ exit_code = None

\* lines 155-161: one turn of the loop over pipeline_steps
RunStep ==
    /\ main_pc = "steps"
    /\ step <= Len(pipeline_steps)
    /\ \E ending \in StepEnds(pipeline_steps[step]) :
          /\ outcomes' = Append(outcomes, ending)
          /\ step_results' = Append(step_results,
                                    <<pipeline_steps[step], run_pipeline_step(ending)>>)
    /\ step' = step + 1
    /\ UNCHANGED <<main_pc, exit_code, match_vars, norm_vars>>

\* lines 163-175: the summary and the return value
MainReturn ==
    /\ main_pc = "steps"
    /\ step > Len(pipeline_steps)
    /\ exit_code' = IF AllSucceeded(step_results) THEN 0 ELSE 1
    /\ main_pc' = "returned"
    /\ UNCHANGED <<step, outcomes, step_results, match_vars, norm_vars>>

NextMain == RunStep \/ MainReturn

SpecMain == InitMain /\ [][NextMain]_vars

(***************************************************************************)
(* Properties.                                                             *)
(***************************************************************************)
\* the claim files whose iteration has run
Done == {f \in Files : attempts[f] > 0}

\* the iteration of f ran with no failing storage call on a JSON file
Clean(f) == input[f].json_ok /\ trace[f].exc \notin {"download", "upload", "move"}

\* the dates of the service lines that parse
ParsedDates(service_lines) ==
    SelectSeq([n \in 1..Len(service_lines) |->
                  parse_date(service_lines[n].date_of_service)],
              LAMBDA d : d # None)

\* the service lines that carry a date that does not parse
BadLines(service_lines) ==
    {n \in 1..Len(service_lines) :
        /\ service_lines[n].date_of_service.fmt # ""
        /\ parse_date(service_lines[n].date_of_service) = None}

\* the claim with its unparseable dates removed
WithoutBadDates(content) ==
    [content EXCEPT !.service_lines =
        [n \in 1..Len(content.service_lines) |->
            IF n \in BadLines(content.service_lines)
            THEN [content.service_lines[n] EXCEPT !.date_of_service = EmptyDate]
            ELSE content.service_lines[n]]]

\* the outcome of an iteration: the order matched, "unmatched", or "fault"
\* when the iteration raised before it decided
Outcome(r) ==
    IF r.exc \in {"download", "JSONDecodeError", "TypeError"} THEN "fault"
    ELSE IF r.best # <<>> THEN r.best[1].row.Order_ID
    ELSE "unmatched"

\* the orders of the loaded ledger that have a date
Dated(df) == SelectSeq(df, LAMBDA row : ~row.DOS_isnan)

\* C1: a service line whose date parses under none of the formats is left
\* out and is never fatal: a claim with a parseable date has the outcome of
\* the same claim without its unparseable dates, and the comparison of
\* dates raises nothing (stated for ledgers whose orders all have a date)
C1_Claim ==
    \A f \in Done :
        (/\ Clean(f)
         /\ ParsedDates(input[f].service_lines) # <<>>
         /\ Dated(df_orders) = df_orders)
        => /\ trace[f].exc # "TypeError"
           /\ Outcome(trace[f])
                = Outcome(Iteration(WithoutBadDates(input[f]), "none",
                                    df_orders, df_line_items))

\* C2: a claim with an empty normalized name or with no date that parses is
\* moved to the unmapped prefix whatever the ledger holds, and no order is
\* scored for it
C2_Claim ==
    \A f \in Done :
        (/\ Clean(f)
         /\ \/ normalize_text(input[f].patient_name) = <<>>
            \/ ParsedDates(input[f].service_lines) = <<>>)
        => /\ trace[f].moved_to = "unmapped"
           /\ bucket[<<"unmapped", f>>] # NoObject
           /\ trace[f].scored = 0

\* C3: an order with no parseable date stays in the index, is never a
\* candidate, and does not change the outcome of any claim: the outcome is
\* the one against the ledger without that order (stated for claims whose
\* dates all parse)
C3_Claim ==
    /\ pc # "load" => Len(df_orders) = Len(orders_parquet)
    /\ \A f \in Done :
        (Clean(f) /\ BadLines(input[f].service_lines) = {})
        => /\ \A n \in 1..Len(trace[f].candidate_matches) :
                  ~trace[f].candidate_matches[n].row.DOS_isnan
           /\ Outcome(trace[f])
                = Outcome(Iteration(input[f], "none", Dated(df_orders),
                                    df_line_items))

\* the least distance in days between a date of the claim that parses and
\* a date of the order; Far when there is no pair of dates
Far == DOS_WINDOW + DOS_WINDOW
Distance(service_lines, row) ==
    LET ds == ParsedDates(service_lines)
        gaps == {Abs(ds[i] - row.DOS_List[j]) :
                    i \in 1..Len(ds), j \in 1..Len(row.DOS_List)}
    IN  IF gaps = {} THEN Far
        ELSE CHOOSE g \in gaps : \A h \in gaps : g <= h

\* the composite score of the claim's name against an order, doubled
NameScore2(content, row) ==
    token_sort_ratio(normalize_text(content.patient_name), row.PatientName)
    + token_set_ratio(normalize_text(content.patient_name), row.PatientName)

\* the order clears both bars of the candidate generator
Qualifies(content, row) ==
    /\ NameScore2(content, row) >= 180
    /\ Distance(content.service_lines, row) <= 14

\* C4: an order a claim is mapped to, and every candidate, has a composite
\* score of at least 90 and a date within 14 days of a date of the claim;
\* a claim none of whose orders clears both bars is not mapped
C4_Thm ==
    \A f \in Done :
        /\ \A n \in 1..Len(trace[f].candidate_matches) :
              Qualifies(input[f], trace[f].candidate_matches[n].row)
        /\ trace[f].best # <<>> => Qualifies(input[f], trace[f].best[1].row)
        /\ (\A i \in 1..Len(df_orders) : ~Qualifies(input[f], df_orders[i]))
              => /\ trace[f].best = <<>>
                 /\ trace[f].moved_to # "mapped"
                 /\ bucket[<<"mapped", f>>] = NoObject

\* a claim is mapped to an order whose nearest date is exactly 14 days away
\* and whose name is not equal to the claim's (a score from 90 to 99)
C4_Witness ==
    \E f \in Done :
        /\ trace[f].moved_to = "mapped"
        /\ Distance(input[f].service_lines, trace[f].best[1].row) = 14
        /\ NameScore2(input[f], trace[f].best[1].row) < 200

\* the procedure codes shared by the claim and an order
Overlap(content, row) ==
    Cardinality(json_cpts_of(content.service_lines)
                \cap get_cpts_for_order(row.Order_ID, df_line_items))

\* the rank of a candidate is above the rank of another
Outranks(content, a, b) ==
    \/ Overlap(content, a.row) > Overlap(content, b.row)
    \/ /\ Overlap(content, a.row) = Overlap(content, b.row)
       /\ a.composite_score2 > b.composite_score2

\* the iteration of f chose among two or more candidates
Contested(f) == Len(trace[f].candidate_matches) >= 2 /\ trace[f].best # <<>>

\* C5: among two or more candidates the winner is maximal for
\* (cpt_overlap_count, composite score) in lexicographic order
C5_Thm ==
    \A f \in Done :
        Contested(f)
        => /\ \E n \in 1..Len(trace[f].candidate_matches) :
                  trace[f].candidate_matches[n] = trace[f].best[1]
           /\ \A n \in 1..Len(trace[f].candidate_matches) :
                  ~Outranks(input[f], trace[f].candidate_matches[n], trace[f].best[1])

\* the winner has the higher overlap and the lower composite score
C5_Witness ==
    \E f \in Done :
        /\ Contested(f)
        /\ \E n \in 1..Len(trace[f].candidate_matches) :
              /\ Overlap(input[f], trace[f].best[1].row)
                    > Overlap(input[f], trace[f].candidate_matches[n].row)
              /\ trace[f].best[1].composite_score2
                    < trace[f].candidate_matches[n].composite_score2

TiedWithBest(f) ==
    {n \in 1..Len(trace[f].candidate_matches) :
        /\ Overlap(input[f], trace[f].candidate_matches[n].row)
              = Overlap(input[f], trace[f].best[1].row)
        /\ trace[f].candidate_matches[n].composite_score2
              = trace[f].best[1].composite_score2}

\* C7: among the candidates that tie on both keys the winner is the one the
\* scan of the orders met first
C7_Thm ==
    \A f \in Done :
        Contested(f)
        => \E n \in TiedWithBest(f) :
              /\ trace[f].candidate_matches[n] = trace[f].best[1]
              /\ \A m \in TiedWithBest(f) : n <= m

\* two candidates tie on both keys
C7_Witness ==
    \E f \in Done : Contested(f) /\ Cardinality(TiedWithBest(f)) >= 2

\* C8: after a match the object at the mapped key is the claim with the
\* order id and the FileMaker number of the winner, and the key under
\* valid/ is gone
C8_Claim ==
    \A f \in Done :
        trace[f].moved_to = "mapped"
        => /\ bucket[<<"mapped", f>>].Order_ID = trace[f].best[1].row.Order_ID
           /\ bucket[<<"mapped", f>>].filemaker_number
                 = trace[f].best[1].row.FileMaker_Record_Number
           /\ bucket[<<"mapped", f>>].patient_name = input[f].patient_name
           /\ bucket[<<"valid", f>>] = NoObject

\* C9: a matched claim has its audit record in the results and its
\* iteration raises nothing
C9_Claim ==
    \A f \in Done :
        (trace[f].best # <<>> /\ Clean(f))
        => /\ trace[f].exc = "none"
           /\ \E n \in 1..Len(results) :
                 results[n] = AuditRecord(f, input[f], trace[f].json_name,
                                          trace[f].best[1])

\* C10: an exception in the iteration of a claim does not end the run:
\* the claims of the listing are attempted once each, in order, whatever
\* the earlier iterations raised, and the run is at its summary only after
\* every claim of the listing was attempted
C10_Thm ==
    /\ \A n \in 1..Len(json_keys) :
          attempts[json_keys[n]] = IF n < idx THEN 1 ELSE 0
    /\ pc = "loop" => idx <= Len(json_keys) + 1
    /\ pc = "done" => \A n \in 1..Len(json_keys) : attempts[json_keys[n]] = 1

\* the iteration of a claim raised and a later claim was attempted
C10_Witness ==
    /\ pc = "done"
    /\ \E n \in 1..Len(json_keys) :
          /\ trace[json_keys[n]].exc # "none"
          /\ \E m \in 1..Len(json_keys) : m > n /\ attempts[json_keys[m]] = 1

\* the reference index load_orders_to_dataframe builds from the two tables
LoadedOrders == MergeOrders(orders_parquet, ParsedItems(line_items_parquet))
LoadedItems == ParsedItems(line_items_parquet)

\* the iteration of f got past the download of a JSON file
Decided(f) == input[f].json_ok /\ trace[f].exc # "download"

\* C11: the outcome of a claim is a function of the loaded reference index
\* and of the claim's own fields: it is the outcome of the claim processed
\* alone, whatever the other claims of the batch are, where they stand in
\* the listing and how their iterations ended; two claims with the same
\* fields have the same outcome; and the index stays what was loaded
C11_Thm ==
    /\ pc \in {"list", "loop", "done"}
          => df_orders = LoadedOrders /\ df_line_items = LoadedItems
    /\ \A f \in Done :
          Decided(f)
          => Outcome(trace[f])
                = Outcome(Iteration(input[f], "none", LoadedOrders, LoadedItems))
    /\ \A f, g \in Done :
          (Decided(f) /\ Decided(g) /\ input[f] = input[g])
          => Outcome(trace[f]) = Outcome(trace[g])

\* a claim whose scan found no candidate is unmatched right after a claim
\* whose iteration found a candidate and then raised
C11_Witness ==
    \E f, g \in Done :
        /\ g < f
        /\ trace[g].candidate_matches # <<>>
        /\ trace[g].exc # "none"
        /\ ReachedScan(trace[f])
        /\ trace[f].candidate_matches = <<>>
        /\ Outcome(trace[f]) = "unmatched"

\* str.lower on one character
CaseFold(ch) ==
    CASE ch = "A" -> "a"
      [] ch = "E" -> "e"
      [] ch = "I" -> "i"
      [] ch = "L" -> "l"
      [] ch = "N" -> "n"
      [] OTHER -> ch

\* how often the letter or digit ch occurs in s, whatever its case
Occurrences(ch, s) ==
    Cardinality({i \in 1..Len(s) : IsAlnum(s[i]) /\ CaseFold(s[i]) = CaseFold(ch)})

\* s and t have the same multiset of letters and digits after case folding
SameLetters(s, t) ==
    \A i \in 1..Len(CharOrder) :
        Occurrences(CharOrder[i], s) = Occurrences(CharOrder[i], t)

\* C12: two texts with the same multiset of alphanumeric characters after
\* case folding have the same fingerprint, and the empty (or absent) text
\* has the empty fingerprint
C12_Thm ==
    norm_pc \in {"normalized", "again"}
    => /\ SameLetters(text_a, text_b) => fp_a = fp_b
       /\ text_a = <<>> => fp_a = <<>>

\* "Ann Li" and "LI, ANN" differ in order, case and punctuation and have
\* the same fingerprint
C12_Witness ==
    /\ norm_pc = "normalized"
    /\ text_a = NameAnnLi
    /\ text_b = NameLiAnn
    /\ fp_a = fp_b
    /\ Len(fp_a) = 5

\* C13: normalize_text is idempotent: the fingerprint of a fingerprint is
\* the fingerprint
C13_Thm == norm_pc = "again" => fp_again = fp_a

\* a text whose fingerprint has several letters and is not the text
C13_Witness ==
    /\ norm_pc = "again"
    /\ Len(fp_a) >= 2
    /\ fp_a # text_a
    /\ fp_again = fp_a

\* the prefixes under which the claim file f has an object
HeldUnder(f) == {p \in Prefixes : bucket[<<p, f>>] # NoObject}

\* C14: when process_matches ends, every claim file of the listing (stated
\* for the JSON files whose iteration met no failing storage call) is under
\* exactly one of mapped/ and unmapped/, is no longer under valid/, and the
\* object there still carries the claim
C14_Claim ==
    pc = "done"
    => \A n \in 1..Len(json_keys) :
          Clean(json_keys[n])
          => /\ HeldUnder(json_keys[n]) \in {{"mapped"}, {"unmapped"}}
             /\ \A p \in HeldUnder(json_keys[n]) :
                   /\ bucket[<<p, json_keys[n]>>].patient_name
                         = input[json_keys[n]].patient_name
                   /\ bucket[<<p, json_keys[n]>>].service_lines
                         = input[json_keys[n]].service_lines

\* C15: main returns 0 only if every step ended without an error; a step
\* that raised or that returned False is recorded as failed and makes main
\* return 1; and all seven steps are run in the order of pipeline_steps
C15_Claim ==
    main_pc = "returned"
    => /\ Len(step_results) = Len(pipeline_steps)
       /\ \A n \in 1..Len(step_results) :
             /\ step_results[n][1] = pipeline_steps[n]
             /\ step_results[n][2] = (outcomes[n] = "returns")
       /\ exit_code = (IF \A n \in 1..Len(outcomes) : outcomes[n] = "returns"
                       THEN 0 ELSE 1)

\* the claim files the run moved to mapped/ or unmapped/
Routed == {f \in Files : trace[f].moved_to # "nowhere"}

\* C16: when process_matches ends, processed_files is the number of claim
\* files the run routed to mapped/ or unmapped/, whatever branch routed
\* them, and the temporary copy of each of them is removed
C16_Claim ==
    pc = "done"
    => /\ processed_files = Cardinality(Routed)
       /\ \A f \in Routed : local[f] = NoObject

====
